---- MODULE Spec2Model ----
(***************************************************************************)
(* One invocation of the azure_rm_keyvault module (AzureRMVaults):         *)
(* the parameter normalisation of exec_module, the four-way action         *)
(* decision, the dispatch to the Key Vault management client and the       *)
(* result that is returned.  The management client and the remote vault    *)
(* are the environment: every call can succeed or raise CloudError.        *)
(***************************************************************************)
EXTENDS Integers, Sequences, FiniteSets, TLC

VARIABLES
    kwargs,          \* the module arguments handed to exec_module
    check_mode,      \* self.check_mode (dry run)
    rg_location,     \* location the resource group reports
    vault,           \* the vault as the remote holds it (None when absent)
    deleting,        \* the remote accepted a delete that is not visible yet
    pc,              \* position of the invocation inside exec_module
    resource_group,  \* self.resource_group
    vault_name,      \* self.vault_name
    state,           \* self.state
    parameters,      \* self.parameters
    old_response,    \* local old_response
    response,        \* local response
    to_do,           \* self.to_do
    results,         \* self.results
    calls,           \* remote calls issued so far, in order
    last_get,        \* what the latest get_keyvault returned (None before the first)
    polls,           \* get_keyvault calls made by the loop of line 302
    slept,           \* seconds spent in time.sleep so far
    fail_msg         \* message handed to self.fail (None while not failed)

vars == <<kwargs, check_mode, rg_location, vault, deleting, pc, resource_group,
          vault_name, state, parameters, old_response, response, to_do,
          results, calls, last_get, polls, slept, fail_msg>>

-----------------------------------------------------------------------------
(* Bounds *)

MaxPolicies == 1     \* longest access_policies list of the inputs
MaxEtag == 2         \* distinct representations the remote can return
MaxPolls == 3        \* polls counted (and recorded in calls) before the count saturates

-----------------------------------------------------------------------------
(* Python values *)

None == [null |-> TRUE]
Some(x) == [null |-> FALSE, v |-> x]
False == [false |-> TRUE]

\* truth value of old_response / response: None and False are falsy, a
\* vault dictionary is truthy
Truthy(x) == x \notin {None, False}

Actions == [NoAction |-> 0, Create |-> 1, Update |-> 2, Delete |-> 3]

SleepSeconds == 20

\* keys of module_arg_spec, in definition order
ArgKeys == <<"resource_group", "vault_name", "location", "tenant_id", "sku",
             "access_policies", "vault_uri", "enabled_for_deployment",
             "enabled_for_disk_encryption", "enabled_for_template_deployment",
             "enable_soft_delete", "create_mode", "state">>

\* attributes __init__ sets on self that are also argument names
SelfAttrs == {"resource_group", "vault_name", "state"}

PropertyKeys == {"tenant_id", "sku", "access_policies", "vault_uri",
                 "enabled_for_deployment", "enabled_for_disk_encryption",
                 "enabled_for_template_deployment", "enable_soft_delete",
                 "create_mode"}

PermissionKeys == {"keys", "secrets", "certificates", "storage"}

-----------------------------------------------------------------------------
(* Inputs *)

PolicyEntries ==
    { [tenant_id |-> "t1", object_id |-> "o1", keys |-> <<"get", "list">>],
      [tenant_id |-> "t1", object_id |-> "o2", secrets |-> <<"get">>,
       storage |-> <<"list">>],
      [tenant_id |-> "t1", object_id |-> "o3",
       permissions |-> [certificates |-> <<"get">>]] }

RECURSIVE SeqsUpTo(_, _)
SeqsUpTo(S, n) ==
    IF n = 0 THEN {<<>>}
    ELSE LET shorter == SeqsUpTo(S, n - 1)
         IN  shorter \cup {Append(s, e) : s \in {t \in shorter : Len(t) = n - 1}, e \in S}

ArgValues(key) ==
    CASE key = "resource_group" -> {Some("rg1")}
      [] key = "vault_name" -> {Some("kv1")}
      [] key = "state" -> {Some("present"), Some("absent")}
      [] key = "location" -> {None, Some("eastus")}
      [] key = "sku" -> {None, Some([family |-> "A", name |-> "standard"])}
      [] key = "access_policies" ->
            {None} \cup {Some(s) : s \in SeqsUpTo(PolicyEntries, MaxPolicies)}
      [] key = "create_mode" -> {None, Some("recover")}
      [] key = "enable_soft_delete" -> {None, Some("True")}
      [] OTHER -> {None, Some(key)}

Inputs ==
    [resource_group : ArgValues("resource_group"),
     vault_name : ArgValues("vault_name"),
     location : ArgValues("location"),
     tenant_id : ArgValues("tenant_id"),
     sku : ArgValues("sku"),
     access_policies : ArgValues("access_policies"),
     vault_uri : ArgValues("vault_uri"),
     enabled_for_deployment : ArgValues("enabled_for_deployment"),
     enabled_for_disk_encryption : ArgValues("enabled_for_disk_encryption"),
     enabled_for_template_deployment : ArgValues("enabled_for_template_deployment"),
     enable_soft_delete : ArgValues("enable_soft_delete"),
     create_mode : ArgValues("create_mode"),
     state : ArgValues("state")]

VaultId(rg, name) == <<"vaults", rg, name>>

\* representations of the vault kv1 of rg1 the remote can hold and return
Reps == {[id |-> VaultId("rg1", "kv1"), etag |-> n] : n \in 1..MaxEtag}

Causes == {"Forbidden", "Timeout"}

-----------------------------------------------------------------------------
(* Parameter normalisation, exec_module lines 224-249 *)

\* SetProperty that starts a new properties dictionary on every insertion
SetProperty_fresh(params, key, value) ==
    [k \in DOMAIN params \cup {"properties"} |->
        IF k = "properties" THEN [j \in {key} |-> value] ELSE params[k]]

\* self.parameters.setdefault("properties", {})[key] = value
SetProperty(params, key, value) ==
    LET props == IF "properties" \in DOMAIN params
                 THEN params["properties"] ELSE [k \in {} |-> None]
        props2 == [k \in DOMAIN props \cup {key} |->
                      IF k = key THEN value ELSE props[k]]
    IN  [k \in DOMAIN params \cup {"properties"} |->
            IF k = "properties" THEN props2 ELSE params[k]]

\* self.parameters["location"] = value
SetLocation(params, value) ==
    [k \in DOMAIN params \cup {"location"} |->
        IF k = "location" THEN value ELSE params[k]]

\* one iteration of the loop over module_arg_spec, on self.parameters
NormalizeKey(params, key, kw) ==
    IF key \in SelfAttrs THEN params
    ELSE IF kw[key] # None
         THEN IF key = "location" THEN SetLocation(params, kw[key].v)
              ELSE IF key \in PropertyKeys THEN SetProperty(params, key, kw[key].v)
              ELSE params
         ELSE params

RECURSIVE NormalizeFrom(_, _, _)
NormalizeFrom(i, params, kw) ==
    IF i > Len(ArgKeys) THEN params
    ELSE NormalizeFrom(i + 1, NormalizeKey(params, ArgKeys[i], kw), kw)

\* rename_key: move d[old_name] to d[new_name] when it is present
rename_key(d, old_name, new_name) ==
    IF old_name \in DOMAIN d
    THEN [k \in (DOMAIN d \ {old_name}) \cup {new_name} |->
             IF k = new_name THEN d[old_name] ELSE d[k]]
    ELSE d

\* adjust_parameters: the guard looks for a top-level access_policies and
\* the guarded block holds comments only; rename_key is never called
adjust_parameters(params) ==
    IF "access_policies" \in DOMAIN params
    THEN params
    ELSE params

\* DefaultLocation without the test for a location already set
DefaultLocation_always(params, rgloc) == SetLocation(params, rgloc)

\* if "location" not in self.parameters: ... = resource_group.location
DefaultLocation(params, rgloc) ==
    IF "location" \notin DOMAIN params THEN SetLocation(params, rgloc) ELSE params

-----------------------------------------------------------------------------
(* Reconciler helpers *)

\* ToDo without the Delete branch of lines 272-273
ToDo_noDelete(old, st) ==
    IF ~Truthy(old)
    THEN IF st = Some("absent") THEN Actions.NoAction ELSE Actions.Create
    ELSE IF st = Some("present") THEN Actions.Update
         ELSE Actions.NoAction

\* ToDo without the test of self.state on a missing vault
ToDo_createWhenever(old, st) ==
    IF ~Truthy(old)
    THEN Actions.Create
    ELSE IF st = Some("absent") THEN Actions.Delete
         ELSE IF st = Some("present") THEN Actions.Update
         ELSE Actions.NoAction

\* the action decision of lines 264-276, starting from to_do = NoAction
ToDo(old, st) ==
    IF ~Truthy(old)
    THEN IF st = Some("absent") THEN Actions.NoAction ELSE Actions.Create
    ELSE IF st = Some("absent") THEN Actions.Delete
         ELSE IF st = Some("present") THEN Actions.Update
         ELSE Actions.NoAction

\* Changed that compares only, without the case of no prior vault
Changed_onlyCompare(old, resp) ==
    Truthy(old) /\ old # resp

\* Changed that reports every update as a change
Changed_always(old, resp) == TRUE

\* results['changed'] after create_update_keyvault, lines 287-290
Changed(old, resp) ==
    IF ~Truthy(old) THEN TRUE ELSE old # resp

\* lines 309-310
WithId(res, resp) ==
    IF Truthy(resp)
    THEN [k \in DOMAIN res \cup {"id"} |-> IF k = "id" THEN resp.id ELSE res[k]]
    ELSE res

SetChanged(res, b) ==
    [k \in DOMAIN res \cup {"changed"} |-> IF k = "changed" THEN b ELSE res[k]]

\* what get_keyvault can return: the vault when the get succeeds, False when
\* the get raises CloudError (not found, or any other failure)
GetReturns(v) == IF v = None THEN {False} ELSE {v, False}

\* FailMessage that drops the text of the exception
FailMessage_noCause(prefix, cause) == <<prefix>>

\* the text handed to self.fail: "<prefix>{0}".format(str(exc))
FailMessage(prefix, cause) == <<prefix, cause>>

Min(a, b) == IF a < b THEN a ELSE b

Record(call) == Append(calls, call)

GetCall == [op |-> "get", resource_group |-> resource_group.v,
            vault_name |-> vault_name.v]

\* the record of the polling gets saturates after MaxPolls of them
RecordPoll == IF polls < MaxPolls THEN Append(calls, GetCall) ELSE calls

-----------------------------------------------------------------------------
(* State after construction, __init__ lines 208-219 *)

Init ==
    /\ kwargs \in Inputs
    /\ check_mode \in BOOLEAN
    /\ rg_location = "westus"
    /\ vault \in {None} \cup Reps
    /\ deleting = FALSE
    /\ pc = "start"
    /\ resource_group = None
    /\ vault_name = None
    /\ state = None
    /\ parameters = [k \in {} |-> None]
    /\ old_response = None
    /\ response = None
    /\ to_do = Actions.NoAction
    /\ results = [changed |-> FALSE]
    /\ calls = <<>>
    /\ last_get = None
    /\ polls = 0
    /\ slept = 0
    /\ fail_msg = None

-----------------------------------------------------------------------------
(* exec_module, one action per step *)

\* lines 224-249: copy the arguments and build self.parameters
Normalize ==
    /\ pc = "start"
    /\ resource_group' = kwargs["resource_group"]
    /\ vault_name' = kwargs["vault_name"]
    /\ state' = kwargs["state"]
    /\ parameters' = adjust_parameters(NormalizeFrom(1, parameters, kwargs))
    /\ pc' = "normalized"
    /\ UNCHANGED <<kwargs, check_mode, rg_location, vault, deleting,
                   old_response, response, to_do, results, calls, last_get, polls, slept,
                   fail_msg>>

\* GetResourceGroup that looks the resource group up only for a payload
\* without location
GetResourceGroup_whenNoLocation ==
    /\ pc = "normalized"
    /\ \/ /\ "location" \in DOMAIN parameters
          /\ pc' = "located"
          /\ UNCHANGED <<calls, parameters, fail_msg>>
       \/ /\ "location" \notin DOMAIN parameters
          /\ calls' = Record([op |-> "get_resource_group", resource_group |-> resource_group.v])
          /\ \/ /\ parameters' = DefaultLocation(parameters, rg_location)
                /\ pc' = "located"
                /\ UNCHANGED fail_msg
             \/ /\ fail_msg' = Some(FailMessage("Resource group not found", resource_group.v))
                /\ pc' = "failed"
                /\ UNCHANGED parameters
    /\ UNCHANGED <<kwargs, check_mode, rg_location, vault, deleting,
                   resource_group, vault_name, state, old_response, response,
                   to_do, results, last_get, polls, slept>>

\* lines 254-260: look the resource group up and default the location
GetResourceGroup ==
    /\ pc = "normalized"
    /\ calls' = Record([op |-> "get_resource_group", resource_group |-> resource_group.v])
    /\ \/ /\ parameters' = DefaultLocation(parameters, rg_location)
          /\ pc' = "located"
          /\ UNCHANGED fail_msg
       \/ /\ fail_msg' = Some(FailMessage("Resource group not found", resource_group.v))
          /\ pc' = "failed"
          /\ UNCHANGED parameters
    /\ UNCHANGED <<kwargs, check_mode, rg_location, vault, deleting,
                   resource_group, vault_name, state, old_response, response,
                   to_do, results, last_get, polls, slept>>

\* InitialGet that hands a get failing on an existing vault to self.fail
InitialGet_surfacesFailure ==
    /\ pc = "located"
    /\ calls' = Record(GetCall)
    /\ \/ /\ old_response' = (IF vault = None THEN False ELSE vault)
          /\ last_get' = old_response'
          /\ pc' = "fetched"
          /\ UNCHANGED fail_msg
       \/ /\ vault # None
          /\ \E cause \in Causes :
                fail_msg' = Some(FailMessage("Error getting the Key Vault instance: ", cause))
          /\ pc' = "failed"
          /\ UNCHANGED <<old_response, last_get>>
    /\ UNCHANGED <<kwargs, check_mode, rg_location, vault, deleting,
                   resource_group, vault_name, state, parameters, response,
                   to_do, results, polls, slept>>

\* line 262: old_response = self.get_keyvault()
InitialGet ==
    /\ pc = "located"
    /\ calls' = Record(GetCall)
    /\ \E r \in GetReturns(vault) :
          /\ old_response' = r
          /\ last_get' = r
    /\ pc' = "fetched"
    /\ UNCHANGED <<kwargs, check_mode, rg_location, vault, deleting,
                   resource_group, vault_name, state, parameters, response,
                   to_do, results, polls, slept, fail_msg>>

\* lines 264-276: decide the action
Decide ==
    /\ pc = "fetched"
    /\ to_do' = ToDo(old_response, state)
    /\ pc' = "decided"
    /\ UNCHANGED <<kwargs, check_mode, rg_location, vault, deleting,
                   resource_group, vault_name, state, parameters, old_response,
                   response, results, calls, last_get, polls, slept, fail_msg>>

\* lines 278-283: Create / Update in check mode
CheckModeCreateUpdate ==
    /\ pc = "decided"
    /\ to_do \in {Actions.Create, Actions.Update}
    /\ check_mode
    /\ results' = SetChanged(results, TRUE)
    /\ pc' = "done"
    /\ UNCHANGED <<kwargs, check_mode, rg_location, vault, deleting,
                   resource_group, vault_name, state, parameters, old_response,
                   response, to_do, calls, last_get, polls, slept, fail_msg>>

\* CreateUpdate that tries a failed create_or_update a second time
CreateUpdate_retriesOnce ==
    /\ pc = "decided"
    /\ to_do \in {Actions.Create, Actions.Update}
    /\ ~check_mode
    /\ calls' = Record([op |-> "create_or_update",
                        resource_group |-> resource_group.v,
                        vault_name |-> vault_name.v,
                        parameters |-> parameters])
    /\ \/ \E rep \in Reps :
             /\ vault' = rep
             /\ response' = rep
             /\ results' = SetChanged(results, Changed(old_response, rep))
             /\ pc' = "finish"
             /\ UNCHANGED fail_msg
       \/ /\ \A i \in 1..Len(calls) : calls[i].op # "create_or_update"
          /\ UNCHANGED <<pc, fail_msg, vault, response, results>>
       \/ \E cause \in Causes :
             /\ \E i \in 1..Len(calls) : calls[i].op = "create_or_update"
             /\ fail_msg' = Some(FailMessage("Error creating the Key Vault instance: ", cause))
             /\ pc' = "failed"
             /\ UNCHANGED <<vault, response, results>>
    /\ UNCHANGED <<kwargs, check_mode, rg_location, deleting, resource_group,
                   vault_name, state, parameters, old_response, to_do, last_get, polls,
                   slept>>

\* lines 285-291 with create_update_keyvault, lines 327-345
CreateUpdate ==
    /\ pc = "decided"
    /\ to_do \in {Actions.Create, Actions.Update}
    /\ ~check_mode
    /\ calls' = Record([op |-> "create_or_update",
                        resource_group |-> resource_group.v,
                        vault_name |-> vault_name.v,
                        parameters |-> parameters])
    /\ \/ \E rep \in Reps :
             /\ vault' = rep
             /\ response' = rep
             /\ results' = SetChanged(results, Changed(old_response, rep))
             /\ pc' = "finish"
             /\ UNCHANGED fail_msg
       \/ \E cause \in Causes :
             /\ fail_msg' = Some(FailMessage("Error creating the Key Vault instance: ", cause))
             /\ pc' = "failed"
             /\ UNCHANGED <<vault, response, results>>
    /\ UNCHANGED <<kwargs, check_mode, rg_location, deleting, resource_group,
                   vault_name, state, parameters, old_response, to_do, last_get, polls,
                   slept>>

\* lines 292-297: Delete in check mode
CheckModeDelete ==
    /\ pc = "decided"
    /\ to_do = Actions.Delete
    /\ check_mode
    /\ results' = SetChanged(results, TRUE)
    /\ pc' = "done"
    /\ UNCHANGED <<kwargs, check_mode, rg_location, vault, deleting,
                   resource_group, vault_name, state, parameters, old_response,
                   response, to_do, calls, last_get, polls, slept, fail_msg>>

\* Delete without the results['changed'] = True of line 294
Delete_forgetsChanged ==
    /\ pc = "decided"
    /\ to_do = Actions.Delete
    /\ ~check_mode
    /\ calls' = Record([op |-> "delete", resource_group |-> resource_group.v,
                        vault_name |-> vault_name.v])
    /\ \/ /\ deleting' = (vault # None)
          /\ pc' = "poll"
          /\ UNCHANGED fail_msg
       \/ \E cause \in Causes :
             /\ fail_msg' = Some(FailMessage("Error deleting the Key Vault instance: ", cause))
             /\ pc' = "failed"
             /\ UNCHANGED deleting
    /\ UNCHANGED <<kwargs, check_mode, rg_location, vault, resource_group,
                   vault_name, state, parameters, old_response, response,
                   to_do, results, last_get, polls, slept>>

\* Delete that keeps the vault fetched before as the response
Delete_keepsResponse ==
    /\ pc = "decided"
    /\ to_do = Actions.Delete
    /\ ~check_mode
    /\ results' = SetChanged(results, TRUE)
    /\ response' = old_response
    /\ calls' = Record([op |-> "delete", resource_group |-> resource_group.v,
                        vault_name |-> vault_name.v])
    /\ \/ /\ deleting' = (vault # None)
          /\ pc' = "poll"
          /\ UNCHANGED fail_msg
       \/ \E cause \in Causes :
             /\ fail_msg' = Some(FailMessage("Error deleting the Key Vault instance: ", cause))
             /\ pc' = "failed"
             /\ UNCHANGED deleting
    /\ UNCHANGED <<kwargs, check_mode, rg_location, vault, resource_group,
                   vault_name, state, parameters, old_response,
                   to_do, last_get, polls, slept>>

\* Delete without the check-mode return of lines 296-297
Delete_ignoresCheckMode ==
    /\ pc = "decided"
    /\ to_do = Actions.Delete
    /\ results' = SetChanged(results, TRUE)
    /\ calls' = Record([op |-> "delete", resource_group |-> resource_group.v,
                        vault_name |-> vault_name.v])
    /\ \/ /\ deleting' = (vault # None)
          /\ pc' = "poll"
          /\ UNCHANGED fail_msg
       \/ \E cause \in Causes :
             /\ fail_msg' = Some(FailMessage("Error deleting the Key Vault instance: ", cause))
             /\ pc' = "failed"
             /\ UNCHANGED deleting
    /\ UNCHANGED <<kwargs, check_mode, rg_location, vault, resource_group,
                   vault_name, state, parameters, old_response, response,
                   to_do, last_get, polls, slept>>

\* lines 292-299 with delete_keyvault, lines 347-361
Delete ==
    /\ pc = "decided"
    /\ to_do = Actions.Delete
    /\ ~check_mode
    /\ results' = SetChanged(results, TRUE)
    /\ calls' = Record([op |-> "delete", resource_group |-> resource_group.v,
                        vault_name |-> vault_name.v])
    /\ \/ /\ deleting' = (vault # None)
          /\ pc' = "poll"
          /\ UNCHANGED fail_msg
       \/ \E cause \in Causes :
             /\ fail_msg' = Some(FailMessage("Error deleting the Key Vault instance: ", cause))
             /\ pc' = "failed"
             /\ UNCHANGED deleting
    /\ UNCHANGED <<kwargs, check_mode, rg_location, vault, resource_group,
                   vault_name, state, parameters, old_response, response,
                   to_do, last_get, polls, slept>>

\* PollGet with the loop condition negated
PollGet_inverted ==
    /\ pc = "poll"
    /\ calls' = RecordPoll
    /\ polls' = Min(polls + 1, MaxPolls)
    /\ \E r \in GetReturns(vault) :
          /\ last_get' = r
          /\ pc' = IF Truthy(r) THEN "finish" ELSE "sleep"
    /\ UNCHANGED <<kwargs, check_mode, rg_location, vault, deleting,
                   resource_group, vault_name, state, parameters, old_response,
                   response, to_do, results, slept, fail_msg>>

\* PollGet that leaves the loop on the first get, whatever it returns
PollGet_once ==
    /\ pc = "poll"
    /\ calls' = RecordPoll
    /\ polls' = Min(polls + 1, MaxPolls)
    /\ \E r \in GetReturns(vault) :
          /\ last_get' = r
          /\ pc' = "finish"
    /\ UNCHANGED <<kwargs, check_mode, rg_location, vault, deleting,
                   resource_group, vault_name, state, parameters, old_response,
                   response, to_do, results, slept, fail_msg>>

\* line 302: the loop condition, one more get_keyvault
PollGet ==
    /\ pc = "poll"
    /\ calls' = RecordPoll
    /\ polls' = Min(polls + 1, MaxPolls)
    /\ \E r \in GetReturns(vault) :
          /\ last_get' = r
          /\ pc' = IF Truthy(r) THEN "sleep" ELSE "finish"
    /\ UNCHANGED <<kwargs, check_mode, rg_location, vault, deleting,
                   resource_group, vault_name, state, parameters, old_response,
                   response, to_do, results, slept, fail_msg>>

\* line 303: time.sleep(20)
Sleep ==
    /\ pc = "sleep"
    /\ slept' = Min(slept + SleepSeconds, MaxPolls * SleepSeconds)
    /\ pc' = "poll"
    /\ UNCHANGED <<kwargs, check_mode, rg_location, vault, deleting,
                   resource_group, vault_name, state, parameters, old_response,
                   response, to_do, results, calls, last_get, polls, fail_msg>>

\* lines 304-307: nothing to do
NoAction ==
    /\ pc = "decided"
    /\ to_do = Actions.NoAction
    /\ results' = SetChanged(results, FALSE)
    /\ response' = old_response
    /\ pc' = "finish"
    /\ UNCHANGED <<kwargs, check_mode, rg_location, vault, deleting,
                   resource_group, vault_name, state, parameters, old_response,
                   to_do, calls, last_get, polls, slept, fail_msg>>

\* lines 309-312: add the id and return self.results
Finish ==
    /\ pc = "finish"
    /\ results' = WithId(results, response)
    /\ pc' = "done"
    /\ UNCHANGED <<kwargs, check_mode, rg_location, vault, deleting,
                   resource_group, vault_name, state, parameters, old_response,
                   response, to_do, calls, last_get, polls, slept, fail_msg>>

\* the remote: an accepted delete becomes visible
RemoteFinishDelete ==
    /\ deleting
    /\ vault' = None
    /\ deleting' = FALSE
    /\ UNCHANGED <<kwargs, check_mode, rg_location, pc, resource_group,
                   vault_name, state, parameters, old_response, response,
                   to_do, results, calls, last_get, polls, slept, fail_msg>>

Next ==
    \/ Normalize
    \/ GetResourceGroup
    \/ InitialGet
    \/ Decide
    \/ CheckModeCreateUpdate
    \/ CreateUpdate
    \/ CheckModeDelete
    \/ Delete
    \/ PollGet
    \/ Sleep
    \/ NoAction
    \/ Finish
    \/ RemoteFinishDelete

\* the steps of exec_module itself: the synchronous program always takes
\* its next step
Invocation ==
    \/ Normalize
    \/ GetResourceGroup
    \/ InitialGet
    \/ Decide
    \/ CheckModeCreateUpdate
    \/ CreateUpdate
    \/ CheckModeDelete
    \/ Delete
    \/ PollGet
    \/ Sleep
    \/ NoAction
    \/ Finish

Spec == Init /\ [][Next]_vars

\* the arguments that decide the control flow, with the vault properties
\* other than sku left unset: the initial states of the liveness checks
LiveInit ==
    /\ Init
    /\ \A k \in PropertyKeys \ {"sku"} : kwargs[k] = None

\* the invocation keeps running, and the remote eventually makes an accepted
\* delete visible
FairSpec == LiveInit /\ [][Next]_vars /\ WF_vars(Invocation) /\ WF_vars(RemoteFinishDelete)

\* the invocation keeps running, with no assumption on the remote
ProgressSpec == LiveInit /\ [][Next]_vars /\ WF_vars(Invocation)

-----------------------------------------------------------------------------
(* Two invocations in a row *)

\* main() once more with the same arguments, after a run that returned a
\* result outside check mode: a new AzureRMVaults is constructed (lines
\* 208-219) against the remote as the first run left it.  The history keeps
\* an "invoke" entry with the first result and the remote's vault.
Reinvoke ==
    /\ pc = "done"
    /\ ~check_mode
    /\ \A i \in 1..Len(calls) : calls[i].op # "invoke"
    /\ calls' = Record([op |-> "invoke", previous |-> results, remote |-> vault])
    /\ pc' = "start"
    /\ resource_group' = None
    /\ vault_name' = None
    /\ state' = None
    /\ parameters' = [k \in {} |-> None]
    /\ old_response' = None
    /\ response' = None
    /\ to_do' = Actions.NoAction
    /\ results' = [changed |-> FALSE]
    /\ last_get' = None
    /\ polls' = 0
    /\ slept' = 0
    /\ UNCHANGED <<kwargs, check_mode, rg_location, vault, deleting, fail_msg>>

TwiceNext ==
    \/ Next
    \/ Reinvoke

TwiceSpec == Init /\ [][TwiceNext]_vars

-----------------------------------------------------------------------------
(* Observations on the history of remote calls *)

CallsOf(op) == Cardinality({i \in 1..Len(calls) : calls[i].op = op})

CreateCalls == {calls[i] : i \in {j \in 1..Len(calls) : calls[j].op = "create_or_update"}}

LastCall == calls[Len(calls)]

Fetched == pc \notin {"start", "normalized", "located"} /\ last_get # None

InitialAbsent == Fetched /\ ~Truthy(old_response)

InitialPresent == Fetched /\ Truthy(old_response)

WantAbsent == kwargs["state"] = Some("absent")

WantPresent == kwargs["state"] = Some("present")

-----------------------------------------------------------------------------
(* C1: with desired state absent and an initial get that reports the vault  *)
(* absent, in check mode or not, no create_or_update and no delete is ever  *)
(* called, the invocation does not fail or poll, and it returns             *)
(* changed = false.                                                         *)
C1_AbsentAbsentNoChange ==
    (WantAbsent /\ InitialAbsent) =>
        /\ CallsOf("create_or_update") = 0
        /\ CallsOf("delete") = 0
        /\ pc \in {"fetched", "decided", "finish", "done"}
        /\ pc \in {"finish", "done"} => results["changed"] = FALSE

C1_Witness ==
    /\ pc = "done"
    /\ WantAbsent
    /\ InitialAbsent
    /\ to_do = Actions.NoAction
    /\ results["changed"] = FALSE

(* C2: not in check mode, with desired state present and an initial get     *)
(* that reports the vault absent, exactly one create_or_update is called,   *)
(* with (resource_group, vault_name, self.parameters), delete is never      *)
(* called, and on success the result is changed = true with the id of the   *)
(* vault the remote created.                                                *)
C2_CreateOnce ==
    (WantPresent /\ ~check_mode /\ InitialAbsent) =>
        /\ CallsOf("delete") = 0
        /\ CallsOf("create_or_update") = IF pc \in {"finish", "done", "failed"} THEN 1 ELSE 0
        /\ \A c \in CreateCalls :
              /\ c.resource_group = kwargs["resource_group"].v
              /\ c.vault_name = kwargs["vault_name"].v
              /\ c.parameters = parameters
              /\ kwargs["sku"] # None => c.parameters["properties"]["sku"] = kwargs["sku"].v
        /\ pc = "done" =>
              /\ results["changed"] = TRUE
              /\ "id" \in DOMAIN results
              /\ vault # None
              /\ results["id"] = vault.id

C2_Witness ==
    /\ pc = "done"
    /\ WantPresent /\ ~check_mode /\ InitialAbsent
    /\ CallsOf("create_or_update") = 1
    /\ kwargs["sku"] = Some([family |-> "A", name |-> "standard"])
    /\ results = [changed |-> TRUE, id |-> VaultId("rg1", "kv1")]

(* C3: not in check mode, with desired state present and an initial get     *)
(* that reports the vault present, exactly one create_or_update is called   *)
(* whatever the payload, and on success changed is true exactly when the    *)
(* representation the update returned differs from the one the initial get  *)
(* returned.                                                                *)
C3_UpdateAlways ==
    (WantPresent /\ ~check_mode /\ InitialPresent) =>
        /\ CallsOf("delete") = 0
        /\ CallsOf("create_or_update") = IF pc \in {"finish", "done", "failed"} THEN 1 ELSE 0
        /\ pc \in {"finish", "done"} =>
              /\ Truthy(response)
              /\ results["changed"] = (response # old_response)

C3_Witness ==
    /\ pc = "done"
    /\ WantPresent /\ ~check_mode /\ InitialPresent
    /\ CallsOf("create_or_update") = 1
    /\ response = old_response
    /\ results["changed"] = FALSE

(* C4: not in check mode, with desired state absent and an initial get that *)
(* reports the vault present, delete is called exactly once and             *)
(* create_or_update never; the gets of the poll come after the delete, each *)
(* get that still finds the vault is followed by one sleep of 20 seconds    *)
(* and another get, and the loop is left only on a get that reports the     *)
(* vault absent.                                                            *)
C4_DeleteThenPoll ==
    (WantAbsent /\ ~check_mode /\ InitialPresent) =>
        /\ CallsOf("create_or_update") = 0
        /\ CallsOf("delete") = IF pc \in {"fetched", "decided"} THEN 0 ELSE 1
        /\ pc \in {"fetched", "decided", "failed"} => polls = 0 /\ slept = 0
        /\ pc \in {"poll", "sleep", "finish", "done"} =>
              /\ LET firstPoll == CHOOSE i \in 1..Len(calls) : calls[i].op = "delete"
                 IN  /\ \A j \in 1..Len(calls) : j > firstPoll => calls[j] = GetCall
                     /\ Len(calls) - firstPoll = polls
              /\ pc = "sleep" => polls >= 1 /\ Truthy(last_get)
              /\ pc \in {"finish", "done"} => polls >= 1 /\ last_get = False
              /\ polls < MaxPolls =>
                    slept = SleepSeconds * (IF pc = "poll" THEN polls ELSE polls - 1)

C4_Witness ==
    /\ pc = "done"
    /\ WantAbsent /\ ~check_mode /\ InitialPresent
    /\ CallsOf("delete") = 1
    /\ polls = 2
    /\ slept = SleepSeconds
    /\ last_get = False
    /\ vault = None

(* C5: in check mode no create_or_update and no delete is ever called and   *)
(* the remote vault never changes; the invocation returns changed = true    *)
(* when the decided action is Create, Update or Delete and changed = false  *)
(* when it is NoAction.                                                     *)
C5_CheckModeNoMutation ==
    /\ [](check_mode =>
            /\ CallsOf("create_or_update") = 0
            /\ CallsOf("delete") = 0
            /\ ~deleting
            /\ pc \notin {"poll", "sleep"}
            /\ pc = "done" => results["changed"] = (to_do # Actions.NoAction))
    /\ [][check_mode => vault' = vault]_vars

C5_Witness ==
    /\ check_mode
    /\ pc = "done"
    /\ to_do = Actions.Delete
    /\ results["changed"] = TRUE
    /\ vault # None
    /\ CallsOf("delete") = 0

(* C6: a failing create_or_update or delete ends the invocation in the      *)
(* failed outcome with a message that names the operation and carries the   *)
(* cause; the failed call was made once, it is the last remote call, and    *)
(* the invocation never leaves the failed outcome nor calls the remote      *)
(* again.                                                                   *)
C6_MutationFailureFatal ==
    /\ []((pc = "failed" /\ LastCall.op \in {"create_or_update", "delete"}) =>
            /\ CallsOf("create_or_update") + CallsOf("delete") = 1
            /\ polls = 0
            /\ "id" \notin DOMAIN results
            /\ \E cause \in Causes :
                  fail_msg = Some(<<IF LastCall.op = "delete"
                                    THEN "Error deleting the Key Vault instance: "
                                    ELSE "Error creating the Key Vault instance: ",
                                    cause>>))
    /\ [][pc = "failed" => pc' = "failed" /\ calls' = calls /\ results' = results]_vars

C6_Witness ==
    /\ pc = "failed"
    /\ LastCall.op = "delete"
    /\ fail_msg = Some(<<"Error deleting the Key Vault instance: ", "Forbidden">>)

(* C7: with location unset the parameters built by the normalisation have   *)
(* no top-level location and every create_or_update is called with the      *)
(* location of the resource group; with location set every create_or_update *)
(* is called with that location.                                            *)
C7_LocationDefault ==
    /\ (pc = "normalized" /\ kwargs["location"] = None) =>
            "location" \notin DOMAIN parameters
    /\ (pc = "normalized" /\ kwargs["location"] # None) =>
            parameters["location"] = kwargs["location"].v
    /\ \A c \in CreateCalls :
            /\ "location" \in DOMAIN c.parameters
            /\ c.parameters["location"] =
                  IF kwargs["location"] = None THEN rg_location ELSE kwargs["location"].v

C7_Witness ==
    /\ kwargs["location"] = None
    /\ \E c \in CreateCalls : c.parameters["location"] = rg_location
    /\ pc = "done"

(* C8: in the payload handed to create_or_update, every access-policy      *)
(* entry of the input that has any of keys, secrets, certificates, storage  *)
(* has none of them at its top level and has a permissions dictionary       *)
(* holding exactly the ones that were present, with their values, all other *)
(* fields of the entry being untouched.                                     *)
C8_PermissionsMoved ==
    \A c \in CreateCalls :
        kwargs["access_policies"] # None =>
            LET inp == kwargs["access_policies"].v
                out == c.parameters["properties"]["access_policies"]
            IN  /\ Len(out) = Len(inp)
                /\ \A i \in 1..Len(inp) :
                      LET present == DOMAIN inp[i] \cap PermissionKeys
                      IN  present # {} =>
                            /\ DOMAIN out[i] \cap PermissionKeys = {}
                            /\ "permissions" \in DOMAIN out[i]
                            /\ DOMAIN out[i]["permissions"] = present
                            /\ \A k \in present : out[i]["permissions"][k] = inp[i][k]
                            /\ \A k \in DOMAIN inp[i] \ (PermissionKeys \cup {"permissions"}) :
                                  k \in DOMAIN out[i] /\ out[i][k] = inp[i][k]

(* C9: once the parameters are built, properties holds each of the nine     *)
(* vault properties exactly when the argument is not None, with the value   *)
(* of the argument; none of them is at the top level of the parameters,     *)
(* and properties does not exist when all nine arguments are None.          *)
C9_PropertiesContainer ==
    pc # "start" =>
        /\ DOMAIN parameters \subseteq {"location", "properties"}
        /\ "properties" \in DOMAIN parameters <=>
              (\E k \in PropertyKeys : kwargs[k] # None)
        /\ "properties" \in DOMAIN parameters =>
              /\ DOMAIN parameters["properties"] = {k \in PropertyKeys : kwargs[k] # None}
              /\ \A k \in DOMAIN parameters["properties"] :
                    parameters["properties"][k] = kwargs[k].v

C9_Witness ==
    /\ pc = "normalized"
    /\ DOMAIN parameters = {"properties"}
    /\ DOMAIN parameters["properties"] = {"tenant_id", "create_mode"}
    /\ parameters["properties"]["create_mode"] = "recover"

C11_IdAlways ==
    pc = "done" => "id" \in DOMAIN results

(* C12: a get that raises is never the cause of a failed invocation and is  *)
(* handled as "vault absent" whether or not the vault exists: after an      *)
(* initial get that returned False the decision is Create for state present *)
(* and NoAction with changed = false for state absent, and a get of the     *)
(* poll that returns False ends the loop.                                   *)
C12_GetFailureIsAbsent ==
    /\ [](pc = "failed" => LastCall.op # "get")
    /\ []((Fetched /\ old_response = False /\ pc # "fetched") =>
            /\ to_do = IF WantAbsent THEN Actions.NoAction ELSE Actions.Create
            /\ (WantAbsent /\ pc \in {"finish", "done"}) => results["changed"] = FALSE)
    /\ [][(pc = "located" /\ pc' # "located") =>
              (pc' = "fetched" /\ old_response' = last_get')]_vars
    /\ [][(pc = "poll" /\ pc' # "poll") =>
              pc' = IF last_get' = False THEN "finish" ELSE "sleep"]_vars

C12_Witness ==
    /\ pc = "done"
    /\ vault # None
    /\ old_response = False
    /\ to_do = Actions.Create
    /\ ~check_mode

(* C13: when the remote eventually makes an accepted delete visible, every  *)
(* invocation eventually returns or fails; an invocation that did not       *)
(* decide Delete never polls and makes at most three remote calls (the      *)
(* resource-group lookup, the get and one create_or_update).                *)
C13_Terminates ==
    /\ <>(pc \in {"done", "failed"})
    /\ [](to_do # Actions.Delete => (polls = 0 /\ slept = 0 /\ Len(calls) <= 3))
    /\ [](check_mode => Len(calls) <= 2)

C13_Witness ==
    /\ pc = "done"
    /\ to_do = Actions.Delete
    /\ polls = MaxPolls
    /\ slept = MaxPolls * SleepSeconds
    /\ vault = None

\* the invocation terminates with no assumption on the remote
C13_TerminatesUnconditionally ==
    <>(pc \in {"done", "failed"})

(* C14, as claimed: the resource group is looked up only after the          *)
(* decision, only when the action is Create or Update and no location was   *)
(* given; in every other invocation the first remote call is the get of the *)
(* vault.                                                                   *)
C14_LookupOnlyOnDispatch ==
    /\ CallsOf("get_resource_group") > 0 =>
            /\ pc \in {"decided", "finish", "done", "failed"}
            /\ to_do \in {Actions.Create, Actions.Update}
            /\ kwargs["location"] = None
    /\ (calls # <<>> /\ kwargs["location"] # None) => calls[1].op = "get"

(* C14, amended: every invocation looks the resource group up exactly once, *)
(* as its first remote call, before the get of the vault and before the     *)
(* decision, whatever the action and whether or not a location was given;   *)
(* the location it reports is used only when the payload has none.          *)
C14_LookupAlwaysFirst ==
    /\ pc \in {"start", "normalized"} => calls = <<>>
    /\ pc \notin {"start", "normalized"} =>
            /\ calls # <<>>
            /\ calls[1] = [op |-> "get_resource_group",
                           resource_group |-> kwargs["resource_group"].v]
            /\ CallsOf("get_resource_group") = 1
            /\ Len(calls) >= 2 => calls[2] = GetCall
            /\ Len(calls) = 1 => (pc \in {"located", "failed"} /\ to_do = Actions.NoAction)
    /\ pc \in {"located", "fetched", "decided", "poll", "sleep", "finish", "done"} =>
            parameters["location"] =
                IF kwargs["location"] = None THEN rg_location ELSE kwargs["location"].v

C14_Witness ==
    /\ pc = "done"
    /\ to_do = Actions.NoAction
    /\ kwargs["location"] = Some("eastus")
    /\ Len(calls) = 2
    /\ calls[1].op = "get_resource_group"
    /\ calls[2].op = "get"

(* C15: the action is decided once, from the presence the initial get       *)
(* observed and the desired state alone: (absent, absent) -> NoAction,      *)
(* (absent, present) -> Create, (present, absent) -> Delete, (present,      *)
(* present) -> Update; before the decision to_do is NoAction and after it   *)
(* to_do never changes, whatever the gets of the poll observe.              *)
C15_DecidedOnce ==
    /\ [](pc \in {"start", "normalized", "located", "fetched"} => to_do = Actions.NoAction)
    /\ [](pc \in {"decided", "poll", "sleep", "finish", "done"} =>
            to_do = CASE ~Truthy(old_response) /\ WantAbsent -> Actions.NoAction
                      [] ~Truthy(old_response) /\ WantPresent -> Actions.Create
                      [] Truthy(old_response) /\ WantAbsent -> Actions.Delete
                      [] Truthy(old_response) /\ WantPresent -> Actions.Update)
    /\ [][pc # "fetched" => to_do' = to_do]_vars
    /\ [][pc # "located" => old_response' = old_response]_vars

C15_Witness ==
    /\ pc = "done"
    /\ to_do = Actions.Delete
    /\ Truthy(old_response)
    /\ last_get = False
    /\ polls >= 1

(* C16: in every state of an invocation the number of create_or_update      *)
(* calls plus the number of delete calls made so far is at most one.        *)
C16_AtMostOneMutation ==
    CallsOf("create_or_update") + CallsOf("delete") <= 1

C16_Witness ==
    /\ pc = "failed"
    /\ CallsOf("create_or_update") = 1
    /\ CallsOf("delete") = 0
    /\ to_do = Actions.Update

-----------------------------------------------------------------------------
(* The second of two invocations *)

SecondRun == \E i \in 1..Len(calls) : calls[i].op = "invoke"

InvokeIndex == CHOOSE i \in 1..Len(calls) : calls[i].op = "invoke"

SecondCallsOf(op) ==
    Cardinality({i \in 1..Len(calls) : i > InvokeIndex /\ calls[i].op = op})

(* C17: the second of two invocations with the same arguments, outside      *)
(* check mode, reports changed = false: for state absent it decides         *)
(* NoAction and makes no mutating call; for state present it makes one      *)
(* create_or_update and, when the remote returns the representation it held *)
(* before, reports changed = false.                                         *)
C17_SecondRunUnchanged ==
    (SecondRun /\ pc = "done") =>
        IF WantAbsent
        THEN /\ to_do = Actions.NoAction
             /\ results["changed"] = FALSE
             /\ SecondCallsOf("create_or_update") + SecondCallsOf("delete") = 0
        ELSE /\ SecondCallsOf("create_or_update") = 1
             /\ SecondCallsOf("delete") = 0
             /\ response = calls[InvokeIndex].remote => results["changed"] = FALSE

(* C18: outside check mode, an invocation with desired state absent returns *)
(* a result only after a get reported the vault absent, that get coming     *)
(* after the delete when a delete was made, and the changed it returns is   *)
(* true exactly when the initial get reported the vault present.            *)
C18_AbsentPostcondition ==
    (pc = "done" /\ WantAbsent /\ ~check_mode) =>
        /\ last_get = False
        /\ LastCall = GetCall
        /\ results["changed"] = Truthy(old_response)
        /\ CallsOf("delete") = (IF Truthy(old_response) THEN 1 ELSE 0)
        /\ CallsOf("delete") = 1 => polls >= 1

C18_Witness ==
    /\ pc = "done"
    /\ WantAbsent
    /\ ~check_mode
    /\ Truthy(old_response)
    /\ results = [changed |-> TRUE]
    /\ polls = 1
    /\ slept = 0

====
